---- MODULE Spec2Model ----
(***************************************************************************)
(* Model of the BadgerDB buffer manager, src/BufMgr/src/buffer.cpp:        *)
(* a fixed pool of frames, the frame descriptors (bufDescTable), the page  *)
(* location index (hashTable), the clock hand, and the files on disk.      *)
(* One action per public operation of BufMgr; allocBuf is the operator the *)
(* operations call.                                                        *)
(***************************************************************************)
EXTENDS Integers, Sequences, FiniteSets, TLC

\* ---- bounds of the model ------------------------------------------------
MaxBufs == 2        \* pool sizes 1..MaxBufs are constructed
NumFiles == 2       \* files 1..NumFiles
MaxPage == 2        \* page numbers 1..MaxPage per file
InitPages == 1      \* pages 1..InitPages exist in every file at construction
MaxAlloc == 1       \* allocatePage calls made over the manager's lifetime
MaxPin == 2         \* fetchPage hits stop raising pinCnt at MaxPin

\* ---- values of the program ----------------------------------------------
INVALID_NUMBER == 0 \* Page::INVALID_NUMBER, the page number of no page
NoFile == 0         \* nullptr in BufDesc::file
NoFrame == -1       \* no frame: lookup found nothing / allocBuf threw
Deleted == -1       \* disk content of a page that was deleted
Unalloc == -2       \* disk content of a page number not yet allocated

Files == 1..NumFiles
Pages == 1..MaxPage

VARIABLES
    numBufs,        \* BufMgr::numBufs
    bufDescTable,   \* BufMgr::bufDescTable, frame -> BufDesc
    bufPool,        \* BufMgr::bufPool, frame -> Page (number and content)
    hashTable,      \* BufMgr::hashTable, <<file, pageNo>> -> frame or NoFrame
    clockHand,      \* BufMgr::clockHand
    disk,           \* the files: disk[file][pageNo] is the content on disk
    res,            \* the call just made and how it ended
    hist            \* number of calls so far while all were fetches of
                    \* non-resident pages, -1 once another call was made

vars == <<numBufs, bufDescTable, bufPool, hashTable, clockHand, disk, res, hist>>

Frames == 0..(numBufs - 1)

\* ---- BufDesc --------------------------------------------------------------
\* BufDesc::Clear()
Clear ==
    [file |-> NoFile, pageNo |-> INVALID_NUMBER, pinCnt |-> 0,
     dirty |-> FALSE, valid |-> FALSE, refbit |-> FALSE]

\* BufDesc::Set(file, pageNo)
Set(file, pageNo) ==
    [file |-> file, pageNo |-> pageNo, pinCnt |-> 1,
     dirty |-> FALSE, valid |-> TRUE, refbit |-> TRUE]

\* ---- the file collaborator -------------------------------------------------
\* The content of page pageNo of a file at construction: every page holds its
\* own content, so a slot or a disk page that holds another page's content shows.
\* A page that File::allocatePage() creates is empty, content 0.
InitContent(file, pageNo) == (file - 1) * MaxPage + pageNo

PageExists(d, file, pageNo) == d[file][pageNo] >= 0

\* File::writePage(page): persists the page at the number embedded in it
writePage(d, file, page) == [d EXCEPT ![file][page.pno] = page.data]

\* File::deletePage(pageNo)
deletePage(d, file, pageNo) ==
    IF PageExists(d, file, pageNo) THEN [d EXCEPT ![file][pageNo] = Deleted] ELSE d

\* the page number File::allocatePage() assigns next, 0 when the bound is reached
NextPageNo(d, file) ==
    IF \E p \in Pages : d[file][p] = Unalloc
    THEN CHOOSE p \in Pages : d[file][p] = Unalloc /\ \A q \in Pages : q < p => d[file][q] # Unalloc
    ELSE INVALID_NUMBER

\* the number of pages File::allocatePage() has handed out so far
Allocated(d) ==
    Cardinality({k \in Files \X Pages : k[2] > InitPages /\ d[k[1]][k[2]] # Unalloc})

\* ---- BufHashTbl ------------------------------------------------------------
lookup(h, file, pageNo) == h[<<file, pageNo>>]
insert(h, file, pageNo, frame) == [h EXCEPT ![<<file, pageNo>>] = frame]
remove(h, file, pageNo) == [h EXCEPT ![<<file, pageNo>>] = NoFrame]

\* ---- the clock -------------------------------------------------------------
advanceClock(hand) == (hand + 1) % numBufs

\* The manager's state as allocBuf and flushFile thread it through their loops:
\* nw counts the writePage calls made, nd the deletePage calls (disposePage
\* makes them), frame is the frame returned (NoFrame
\* when the call throws), outcome how the call ended.
Cur ==
    [desc |-> bufDescTable, hash |-> hashTable, disk |-> disk, hand |-> clockHand,
     nw |-> 0, nd |-> 0, frame |-> NoFrame, outcome |-> "ok"]

\* allocBuf's victim handling at the clock hand: only a dirty victim is written
\* back, removed from the hash table and cleared; a clean one is left as it is.
\* EvictNoWrite: the same without the writePage call.
EvictNoWrite(s) ==
    LET h == s.hand
        d == s.desc[h]
    IN  IF d.dirty
        THEN [s EXCEPT !.hash = remove(s.hash, d.file, d.pageNo),
                       !.desc[h] = Clear]
        ELSE s

Evict(s) ==
    LET h == s.hand
        d == s.desc[h]
    IN  IF d.dirty
        THEN [s EXCEPT !.disk = writePage(s.disk, d.file, bufPool[h]),
                       !.nw = s.nw + 1,
                       !.hash = remove(s.hash, d.file, d.pageNo),
                       !.desc[h] = Clear]
        ELSE s

\* The while loop of allocBuf, from the frame after the first one probed until
\* the hand is back on the first.
\* ScanIgnoresPins: the loop without its pinCnt > 0 test.
RECURSIVE ScanIgnoresPins(_, _)
ScanIgnoresPins(s, initial) ==
    IF s.hand = initial
    THEN [s EXCEPT !.frame = NoFrame, !.outcome = "BufferExceeded"]
    ELSE LET d == s.desc[s.hand] IN
         IF ~d.valid THEN [s EXCEPT !.frame = s.hand]
         ELSE IF d.refbit
              THEN ScanIgnoresPins([s EXCEPT !.desc[s.hand].refbit = FALSE,
                                    !.hand = advanceClock(s.hand)], initial)
         ELSE [Evict(s) EXCEPT !.frame = s.hand]

\* ScanStopsEarly: the loop leaving out the last frame before the first.
RECURSIVE ScanStopsEarly(_, _)
ScanStopsEarly(s, initial) ==
    IF advanceClock(s.hand) = initial
    THEN [s EXCEPT !.hand = initial, !.frame = NoFrame, !.outcome = "BufferExceeded"]
    ELSE LET d == s.desc[s.hand] IN
         IF ~d.valid THEN [s EXCEPT !.frame = s.hand]
         ELSE IF d.refbit
              THEN ScanStopsEarly([s EXCEPT !.desc[s.hand].refbit = FALSE,
                                   !.hand = advanceClock(s.hand)], initial)
         ELSE IF d.pinCnt > 0
              THEN ScanStopsEarly([s EXCEPT !.hand = advanceClock(s.hand)], initial)
         ELSE [Evict(s) EXCEPT !.frame = s.hand]

RECURSIVE Scan(_, _)
Scan(s, initial) ==
    IF s.hand = initial
    THEN [s EXCEPT !.frame = NoFrame, !.outcome = "BufferExceeded"]
    ELSE LET d == s.desc[s.hand] IN
         IF ~d.valid THEN [s EXCEPT !.frame = s.hand]
         ELSE IF d.refbit
              THEN Scan([s EXCEPT !.desc[s.hand].refbit = FALSE,
                                  !.hand = advanceClock(s.hand)], initial)
         ELSE IF d.pinCnt > 0
              THEN Scan([s EXCEPT !.hand = advanceClock(s.hand)], initial)
         ELSE [Evict(s) EXCEPT !.frame = s.hand]

\* BufMgr::allocBuf
allocBuf(s0) ==
    LET initial == advanceClock(s0.hand)
        s == [s0 EXCEPT !.hand = initial]
        d == s.desc[initial]
    IN  IF ~d.valid THEN [s EXCEPT !.frame = initial]
        ELSE IF d.pinCnt = 0 /\ ~d.refbit THEN [Evict(s) EXCEPT !.frame = initial]
        ELSE Scan([s EXCEPT !.hand = advanceClock(initial)], initial)

\* ---- what res and hist record ------------------------------------------------
Resident(file, pageNo) ==
    \E i \in Frames : /\ bufDescTable[i].valid
                      /\ bufDescTable[i].file = file
                      /\ bufDescTable[i].pageNo = pageNo

\* res: the operation and how it ended; the page whose slot a successful
\* readPage or allocPage handed to the caller; the frame the call found or was
\* given; whether the index had the page; the number of writePage calls made;
\* the number of deletePage calls made; whether the frame allocBuf returned, or
\* the frame disposePage found, held a valid / dirty page before the call.
Result(op, file, pageNo, s, hit) ==
    LET chosen == \/ op \in {"fetch", "alloc"} /\ ~hit /\ s.frame # NoFrame
                  \/ op = "dispose" /\ hit
        handed == op \in {"fetch", "alloc"} /\ s.outcome = "ok"
    IN
    [op |-> op, outcome |-> s.outcome,
     file |-> IF handed THEN file ELSE NoFile,
     page |-> IF handed THEN pageNo ELSE INVALID_NUMBER,
     frame |-> s.frame, hit |-> hit, nw |-> s.nw, nd |-> s.nd,
     vvalid |-> chosen /\ bufDescTable[s.frame].valid,
     vdirty |-> chosen /\ bufDescTable[s.frame].valid /\ bufDescTable[s.frame].dirty]

HistAfterFetch(file, pageNo) ==
    IF hist >= 0 /\ hist <= MaxBufs /\ ~Resident(file, pageNo) THEN hist + 1 ELSE -1

\* ---- the operations ------------------------------------------------------------
\* readPage's update of the descriptor the index lookup found.
\* PinOnly: the same without setting refbit.
PinOnly(d) == [d EXCEPT !.pinCnt = @ + 1]

Pin(d) == [d EXCEPT !.refbit = TRUE, !.pinCnt = @ + 1]

\* BufMgr::readPage (fetchPage)
readPage(file, pageNo) ==
    LET found == lookup(hashTable, file, pageNo) IN
    /\ hist' = HistAfterFetch(file, pageNo)
    /\ UNCHANGED numBufs
    /\ IF found # NoFrame
       THEN /\ bufDescTable[found].pinCnt < MaxPin
            /\ bufDescTable' = [bufDescTable EXCEPT ![found] = Pin(@)]
            /\ res' = Result("fetch", file, pageNo, [Cur EXCEPT !.frame = found], TRUE)
            /\ UNCHANGED <<bufPool, hashTable, clockHand, disk>>
       ELSE LET r == allocBuf(Cur) IN
            /\ clockHand' = r.hand
            /\ disk' = r.disk
            /\ IF r.frame = NoFrame
               THEN /\ bufDescTable' = r.desc
                    /\ hashTable' = r.hash
                    /\ res' = Result("fetch", file, pageNo, r, FALSE)
                    /\ UNCHANGED bufPool
               ELSE IF ~PageExists(r.disk, file, pageNo)
               THEN /\ bufDescTable' = r.desc
                    /\ hashTable' = r.hash
                    /\ res' = Result("fetch", file, pageNo,
                                     [r EXCEPT !.outcome = "InvalidPage"], FALSE)
                    /\ UNCHANGED bufPool
               ELSE /\ bufPool' = [bufPool EXCEPT ![r.frame] =
                                      [pno |-> pageNo, data |-> r.disk[file][pageNo]]]
                    /\ hashTable' = insert(r.hash, file, pageNo, r.frame)
                    /\ bufDescTable' = [r.desc EXCEPT ![r.frame] = Set(file, pageNo)]
                    /\ res' = Result("fetch", file, pageNo, r, FALSE)

\* unPinPageDirtyFirst: unPinPage with the dirty bit set before the pinCnt test.
unPinPageDirtyFirst(file, pageNo, dirty) ==
    LET found == lookup(hashTable, file, pageNo) IN
    /\ hist' = -1
    /\ UNCHANGED <<numBufs, bufPool, hashTable, clockHand, disk>>
    /\ IF found = NoFrame
       THEN /\ res' = Result("unpin", file, pageNo, Cur, FALSE)
            /\ UNCHANGED bufDescTable
       ELSE /\ bufDescTable' = [bufDescTable EXCEPT
                                   ![found].pinCnt = IF @ = 0 THEN 0 ELSE @ - 1,
                                   ![found].dirty = IF dirty THEN TRUE ELSE @]
            /\ res' = Result("unpin", file, pageNo,
                             [Cur EXCEPT !.frame = found,
                                         !.outcome = IF bufDescTable[found].pinCnt = 0
                                                     THEN "PageNotPinned" ELSE "ok"], TRUE)

\* BufMgr::unPinPage
unPinPage(file, pageNo, dirty) ==
    LET found == lookup(hashTable, file, pageNo) IN
    /\ hist' = -1
    /\ UNCHANGED <<numBufs, bufPool, hashTable, clockHand, disk>>
    /\ IF found = NoFrame
       THEN /\ res' = Result("unpin", file, pageNo, Cur, FALSE)
            /\ UNCHANGED bufDescTable
       ELSE IF bufDescTable[found].pinCnt = 0
       THEN /\ res' = Result("unpin", file, pageNo,
                             [Cur EXCEPT !.frame = found, !.outcome = "PageNotPinned"], TRUE)
            /\ UNCHANGED bufDescTable
       ELSE /\ bufDescTable' = [bufDescTable EXCEPT
                                   ![found].pinCnt = @ - 1,
                                   ![found].dirty = IF dirty THEN TRUE ELSE @]
            /\ res' = Result("unpin", file, pageNo, [Cur EXCEPT !.frame = found], TRUE)

\* The for loop of flushFile, from frame i on.
\* flushNoClear: the loop without the Clear() of the descriptor.
RECURSIVE flushNoClear(_, _, _)
flushNoClear(s, file, i) ==
    IF i = numBufs THEN s
    ELSE LET d == s.desc[i] IN
         IF d.file = NoFile \/ d.file # file THEN flushNoClear(s, file, i + 1)
         ELSE IF d.pageNo = INVALID_NUMBER
              THEN [s EXCEPT !.outcome = "BadBuffer", !.frame = i]
         ELSE IF d.pinCnt > 0
              THEN [s EXCEPT !.outcome = "PagePinned", !.frame = i]
         ELSE flushNoClear(
                [s EXCEPT !.disk = IF d.dirty THEN writePage(s.disk, d.file, bufPool[i]) ELSE @,
                          !.nw = IF d.dirty THEN @ + 1 ELSE @,
                          !.hash = remove(s.hash, file, d.pageNo)],
                file, i + 1)

RECURSIVE flushScan(_, _, _)
flushScan(s, file, i) ==
    IF i = numBufs THEN s
    ELSE LET d == s.desc[i] IN
         IF d.file = NoFile \/ d.file # file THEN flushScan(s, file, i + 1)
         ELSE IF d.pageNo = INVALID_NUMBER
              THEN [s EXCEPT !.outcome = "BadBuffer", !.frame = i]
         ELSE IF d.pinCnt > 0
              THEN [s EXCEPT !.outcome = "PagePinned", !.frame = i]
         ELSE flushScan(
                [s EXCEPT !.disk = IF d.dirty THEN writePage(s.disk, d.file, bufPool[i]) ELSE @,
                          !.nw = IF d.dirty THEN @ + 1 ELSE @,
                          !.hash = remove(s.hash, file, d.pageNo),
                          !.desc[i] = Clear],
                file, i + 1)

\* flushFileAllOrNothing: flushFile undoing what it did when it throws.
flushFileAllOrNothing(file) ==
    LET r == flushScan(Cur, file, 0) IN
    /\ hist' = -1
    /\ res' = Result("flush", file, INVALID_NUMBER, r, FALSE)
    /\ UNCHANGED <<numBufs, bufPool, clockHand>>
    /\ IF r.outcome = "ok"
       THEN bufDescTable' = r.desc /\ hashTable' = r.hash /\ disk' = r.disk
       ELSE UNCHANGED <<bufDescTable, hashTable, disk>>

\* BufMgr::flushFile
flushFile(file) ==
    LET r == flushScan(Cur, file, 0) IN
    /\ hist' = -1
    /\ bufDescTable' = r.desc
    /\ hashTable' = r.hash
    /\ disk' = r.disk
    /\ res' = Result("flush", file, INVALID_NUMBER, r, FALSE)
    /\ UNCHANGED <<numBufs, bufPool, clockHand>>

\* BufMgr::allocPage (allocatePage)
allocPage(file) ==
    LET pageNo == NextPageNo(disk, file)
        r == allocBuf([Cur EXCEPT !.disk[file][pageNo] = 0])
    IN  /\ pageNo # INVALID_NUMBER
        /\ Allocated(disk) < MaxAlloc
        /\ hist' = -1
        /\ clockHand' = r.hand
        /\ disk' = r.disk
        /\ res' = Result("alloc", file, pageNo, r, FALSE)
        /\ UNCHANGED numBufs
        /\ IF r.frame = NoFrame
           THEN /\ bufDescTable' = r.desc
                /\ hashTable' = r.hash
                /\ UNCHANGED bufPool
           ELSE /\ bufPool' = [bufPool EXCEPT ![r.frame] = [pno |-> pageNo, data |-> 0]]
                /\ hashTable' = insert(r.hash, file, pageNo, r.frame)
                /\ bufDescTable' = [r.desc EXCEPT ![r.frame] = Set(file, pageNo)]

\* disposePageFlushes: disposePage writing a dirty page back before it clears
\* the frame.
disposePageFlushes(file, pageNo) ==
    LET found == lookup(hashTable, file, pageNo)
        s == IF found # NoFrame /\ bufDescTable[found].valid /\ bufDescTable[found].dirty
             THEN [Cur EXCEPT !.disk = writePage(@, bufDescTable[found].file, bufPool[found]),
                              !.nw = @ + 1]
             ELSE Cur
        r == [s EXCEPT !.disk = deletePage(@, file, pageNo), !.nd = @ + 1]
    IN
    /\ hist' = -1
    /\ disk' = r.disk
    /\ UNCHANGED <<numBufs, bufPool, clockHand>>
    /\ IF found = NoFrame
       THEN /\ res' = Result("dispose", file, pageNo, r, FALSE)
            /\ UNCHANGED <<bufDescTable, hashTable>>
       ELSE /\ hashTable' = remove(hashTable, file, pageNo)
            /\ bufDescTable' = [bufDescTable EXCEPT ![found] = Clear]
            /\ res' = Result("dispose", file, pageNo, [r EXCEPT !.frame = found], TRUE)

\* BufMgr::disposePage: r is the state after the one file->deletePage(PageNo)
\* that either path makes.
disposePage(file, pageNo) ==
    LET found == lookup(hashTable, file, pageNo)
        r == [Cur EXCEPT !.disk = deletePage(@, file, pageNo), !.nd = @ + 1]
    IN
    /\ hist' = -1
    /\ disk' = r.disk
    /\ UNCHANGED <<numBufs, bufPool, clockHand>>
    /\ IF found = NoFrame
       THEN /\ res' = Result("dispose", file, pageNo, r, FALSE)
            /\ UNCHANGED <<bufDescTable, hashTable>>
       ELSE /\ hashTable' = remove(hashTable, file, pageNo)
            /\ bufDescTable' = [bufDescTable EXCEPT ![found] = Clear]
            /\ res' = Result("dispose", file, pageNo, [r EXCEPT !.frame = found], TRUE)

\* ---- the specification ------------------------------------------------------------
\* BufMgr::BufMgr(bufs), on files that hold pages 1..InitPages
Init ==
    /\ numBufs \in 1..MaxBufs
    /\ bufDescTable = [i \in 0..(numBufs - 1) |-> Clear]
    /\ bufPool = [i \in 0..(numBufs - 1) |-> [pno |-> INVALID_NUMBER, data |-> 0]]
    /\ hashTable = [k \in Files \X Pages |-> NoFrame]
    /\ clockHand = numBufs - 1
    /\ disk = [f \in Files |->
                 [p \in Pages |-> IF p <= InitPages THEN InitContent(f, p) ELSE Unalloc]]
    /\ res = Result("init", NoFile, INVALID_NUMBER, Cur, FALSE)
    /\ hist = 0

\* the calls a client makes to the manager
Next ==
    \/ \E f \in Files, p \in Pages : readPage(f, p)
    \/ \E f \in Files, p \in Pages, dirty \in BOOLEAN : unPinPage(f, p, dirty)
    \/ \E f \in Files : flushFile(f)
    \/ \E f \in Files : allocPage(f)
    \/ \E f \in Files, p \in Pages : disposePage(f, p)

Spec == Init /\ [][Next]_vars

\* ---- the scenario of a pool of three frames ---------------------------------------
\* BufMgr::BufMgr(ScenarioBufs), on files that hold pages 1..MaxPage each; the
\* client fetches and unpins pages, and fetches no page that it holds pinned.
ScenarioBufs == 3

ScenarioInit ==
    /\ numBufs = ScenarioBufs
    /\ bufDescTable = [i \in 0..(numBufs - 1) |-> Clear]
    /\ bufPool = [i \in 0..(numBufs - 1) |-> [pno |-> INVALID_NUMBER, data |-> 0]]
    /\ hashTable = [k \in Files \X Pages |-> NoFrame]
    /\ clockHand = numBufs - 1
    /\ disk = [f \in Files |-> [p \in Pages |-> InitContent(f, p)]]
    /\ res = Result("init", NoFile, INVALID_NUMBER, Cur, FALSE)
    /\ hist = 0

HeldPinned(file, pageNo) ==
    \E i \in Frames : lookup(hashTable, file, pageNo) = i /\ bufDescTable[i].pinCnt > 0

ScenarioNext ==
    \/ \E f \in Files, p \in Pages : ~HeldPinned(f, p) /\ readPage(f, p)
    \/ \E f \in Files, p \in Pages, dirty \in BOOLEAN : unPinPage(f, p, dirty)

Scenario == ScenarioInit /\ [][ScenarioNext]_vars

\* ---- properties ------------------------------------------------------------------
\* What the model relies on where the code would otherwise throw from a place
\* the operations do not expect: a descriptor has a file exactly when it is
\* valid, a valid frame's slot holds the page its descriptor names, that page
\* exists in its file and has its own index entry (so BufHashTbl::remove and
\* File::writePage never throw), and no page that is absent from the file has
\* an index entry (so BufHashTbl::insert never meets a present key).
ModelSound ==
    /\ \A i \in Frames :
          LET d == bufDescTable[i] IN
          /\ d.valid <=> d.file # NoFile
          /\ d.valid <=> d.pageNo # INVALID_NUMBER
          /\ d.pinCnt >= 0
          /\ d.valid => /\ bufPool[i].pno = d.pageNo
                        /\ PageExists(disk, d.file, d.pageNo)
                        /\ lookup(hashTable, d.file, d.pageNo) = i
    /\ \A f \in Files, p \in Pages :
          lookup(hashTable, f, p) # NoFrame => PageExists(disk, f, p)
    /\ clockHand \in Frames

\* frame i holds a page that is resident and pinned: its descriptor is valid and
\* names the page, the index maps the page to i, and pinCnt > 0
PinnedResident(i) ==
    /\ bufDescTable[i].valid
    /\ bufDescTable[i].pinCnt > 0
    /\ lookup(hashTable, bufDescTable[i].file, bufDescTable[i].pageNo) = i

\* after the step, frame i still holds the page it held before, and the index
\* still maps that page to i
StaysResident(i) ==
    /\ bufDescTable'[i].valid
    /\ bufDescTable'[i].file = bufDescTable[i].file
    /\ bufDescTable'[i].pageNo = bufDescTable[i].pageNo
    /\ lookup(hashTable', bufDescTable[i].file, bufDescTable[i].pageNo) = i

\* the call just made went through allocBuf and was given a frame
GotFrame(r) == r.op \in {"fetch", "alloc"} /\ ~r.hit /\ r.frame # NoFrame

\* C1: allocBuf never returns a frame whose pinCnt is greater than 0 at the
\* moment it is selected (the descriptor before the call is the descriptor at
\* selection: allocBuf changes a frame's pinCnt only after it chose the frame).
C1_SelectedFrameUnpinned ==
    [][GotFrame(res') => bufDescTable[res'.frame].pinCnt = 0]_vars

\* C2: a page that is resident and pinned is still resident in the same frame,
\* with its index entry and its descriptor, after any one call; its pin count
\* can reach zero only by that call being an unpin, so the page is never
\* evicted or moved while pinned.
C2_PinnedStaysResident ==
    [][\A i \in Frames : PinnedResident(i) => StaysResident(i)]_vars

\* C2 as amended: the same, for every call other than disposePage.
C2_PinnedStaysResidentUnlessDisposed ==
    [][res'.op # "dispose" => \A i \in Frames : PinnedResident(i) => StaysResident(i)]_vars

\* C2 witness: allocBuf evicted a valid page from one frame while the page of
\* another frame was resident and pinned before and after.
C2_Witness ==
    /\ GotFrame(res) /\ res.vvalid /\ res.outcome = "ok"
    /\ \E i \in Frames : i # res.frame /\ PinnedResident(i)

\* C3: every successful fetchPage(file, pageNo), hit or miss, returns a slot
\* that holds page pageNo of that file; on a miss the slot's content is the
\* file's content.
C3_FetchReturnsRequestedPage ==
    (res.op = "fetch" /\ res.outcome = "ok") =>
        /\ bufPool[res.frame].pno = res.page
        /\ bufDescTable[res.frame].valid
        /\ bufDescTable[res.frame].file = res.file
        /\ bufDescTable[res.frame].pageNo = res.page
        /\ ~res.hit => bufPool[res.frame].data = disk[res.file][res.page]

\* C4: an index entry (file, pageNo) -> frame exists if and only if that frame
\* is valid and holds that page of that file.
C4_IndexFrameConsistent ==
    \A f \in Files, p \in Pages, i \in Frames :
        lookup(hashTable, f, p) = i <=>
            /\ bufDescTable[i].valid
            /\ bufDescTable[i].file = f
            /\ bufDescTable[i].pageNo = p

\* C5: every frame with valid = FALSE has pinCnt = 0, dirty = FALSE, refbit = FALSE.
C5_InvalidFrameIsClear ==
    \A i \in Frames :
        ~bufDescTable[i].valid =>
            /\ bufDescTable[i].pinCnt = 0
            /\ ~bufDescTable[i].dirty
            /\ ~bufDescTable[i].refbit

\* C6: no two valid frames hold the same (file, pageNo) pair.
C6_OneFramePerPage ==
    \A i, j \in Frames :
        (/\ i # j
         /\ bufDescTable[i].valid /\ bufDescTable[j].valid
         /\ bufDescTable[i].file = bufDescTable[j].file)
        => bufDescTable[i].pageNo # bufDescTable[j].pageNo

\* C6 witness: a fetchPage miss loaded a page while another frame holds a valid
\* page and the index still has an entry for a page that is no longer resident.
C6_Witness ==
    /\ res.op = "fetch" /\ ~res.hit /\ res.outcome = "ok"
    /\ \E i \in Frames : i # res.frame /\ bufDescTable[i].valid
    /\ \E f \in Files, p \in Pages :
          lookup(hashTable, f, p) # NoFrame /\ ~Resident(f, p)

\* C7: allocBuf (and so a fetchPage miss or allocPage) raises BufferExceeded only
\* when every frame is valid and has pinCnt > 0.
C7_ExceededOnlyWhenAllPinned ==
    [][res'.outcome = "BufferExceeded" =>
          \A i \in Frames : bufDescTable[i].valid /\ bufDescTable[i].pinCnt > 0]_vars

\* C8: when all frames are valid and pinned, a fetchPage of a page that is not
\* resident raises BufferExceeded, and no resident page loses its frame or its
\* index entry.
C8_AllPinnedFetchExceeds ==
    [][(/\ \A i \in Frames : bufDescTable[i].valid /\ bufDescTable[i].pinCnt > 0
        /\ res'.op = "fetch"
        /\ ~Resident(res'.file, res'.page))
       => /\ res'.outcome = "BufferExceeded"
          /\ \A i \in Frames : StaysResident(i)
          /\ hashTable' = hashTable]_vars

\* C9: whenever at least one frame is invalid, allocBuf raises no
\* BufferExceeded; and while every call so far was a fetchPage of a page not
\* resident, the first numBufs such calls raise no BufferExceeded.
C9_FreeFrameNeverExceeds ==
    [][/\ (\E i \in Frames : ~bufDescTable[i].valid) => res'.outcome # "BufferExceeded"
       /\ (hist' >= 1 /\ hist' <= numBufs) => res'.outcome # "BufferExceeded"]_vars

\* C9 witness: a pool of more than one frame was filled by numBufs fetches of
\* distinct pages, every one still pinned, the last taking the last free frame.
C9_Witness ==
    /\ numBufs > 1 /\ hist = numBufs
    /\ res.op = "fetch" /\ ~res.hit /\ res.outcome = "ok" /\ ~res.vvalid
    /\ \A i \in Frames : bufDescTable[i].valid /\ bufDescTable[i].pinCnt > 0

\* the disk after File::allocatePage() of the call just made, if it was one
DiskAtAllocBuf ==
    IF res'.op = "alloc" THEN [disk EXCEPT ![res'.file][res'.page] = 0] ELSE disk

\* C10: when allocBuf selects a valid dirty frame, exactly one writePage is made,
\* and it puts the content the slot held before the call at the victim's page of
\* the victim's file, leaving the other pages alone; a valid clean victim causes
\* no write.
C10_DirtyVictimWrittenBack ==
    [][(GotFrame(res') /\ res'.outcome = "ok" /\ bufDescTable[res'.frame].valid) =>
          LET i == res'.frame
              d == bufDescTable[i]
          IN  IF d.dirty
              THEN /\ res'.nw = 1
                   /\ disk' = [DiskAtAllocBuf EXCEPT ![d.file][d.pageNo] = bufPool[i].data]
              ELSE /\ res'.nw = 0
                   /\ disk' = DiskAtAllocBuf]_vars

\* C10 witness: a fetchPage miss was given a frame that held a valid dirty page,
\* and one page was written.
C10_Witness ==
    res.op = "fetch" /\ res.outcome = "ok" /\ res.vdirty /\ res.nw = 1

\* the frame that holds page pageNo of file (one frame at most, by C6)
FrameOf(file, pageNo) ==
    CHOOSE i \in Frames : /\ bufDescTable[i].valid
                          /\ bufDescTable[i].file = file
                          /\ bufDescTable[i].pageNo = pageNo

\* C11: a successful fetchPage of a page that is resident before the call is an
\* index hit on the frame that holds the page: it returns that frame, raises
\* its pinCnt by exactly 1 and sets its refbit, and changes nothing else: no
\* read from the file (a read is made only on an index miss, and the slots
\* stay as they were), the file, the index, the clock hand, the frame's dirty
\* flag and every other descriptor are as before.
C11_HitPinsInPlace ==
    [][(res'.op = "fetch" /\ res'.outcome = "ok" /\ Resident(res'.file, res'.page)) =>
          LET i == FrameOf(res'.file, res'.page) IN
          /\ res'.hit /\ res'.frame = i
          /\ bufDescTable' = [bufDescTable EXCEPT ![i].pinCnt = bufDescTable[i].pinCnt + 1,
                                                  ![i].refbit = TRUE]
          /\ UNCHANGED <<bufPool, hashTable, clockHand, disk>>]_vars

\* C11 witness: a page fetched twice without an unpin: the second fetch was an
\* index hit, the page is still in its frame and has pinCnt 2.
C11_Witness ==
    /\ res.op = "fetch" /\ res.outcome = "ok" /\ res.hit
    /\ Resident(res.file, res.page)
    /\ res.frame = FrameOf(res.file, res.page)
    /\ bufDescTable[res.frame].pinCnt = 2

\* C12: pinCnt of every frame is >= 0 before and after every call; and
\* unPinPage(file, pageNo, dirty) of a page that is resident with pinCnt 0
\* raises PageNotPinned and leaves the manager's whole state as it was, the
\* dirty flag included, whatever dirty is.
C12_UnpinAtZeroChangesNothing ==
    [][/\ \A i \in Frames : bufDescTable[i].pinCnt >= 0 /\ bufDescTable'[i].pinCnt >= 0
       /\ \A f \in Files, p \in Pages, dirty \in BOOLEAN :
             (/\ Resident(f, p)
              /\ bufDescTable[FrameOf(f, p)].pinCnt = 0
              /\ unPinPage(f, p, dirty))
             => /\ res'.outcome = "PageNotPinned"
                /\ UNCHANGED <<numBufs, bufDescTable, bufPool, hashTable, clockHand, disk>>]_vars

\* C12 witness: an unPinPage raised PageNotPinned on a frame that holds a valid
\* clean page with pinCnt 0, in a pool of two frames whose index has entries
\* for resident pages only (so the page unpinned is the page of that frame).
C12_Witness ==
    /\ res.op = "unpin" /\ res.outcome = "PageNotPinned"
    /\ numBufs = 2
    /\ bufDescTable[res.frame].valid
    /\ bufDescTable[res.frame].pinCnt = 0
    /\ ~bufDescTable[res.frame].dirty
    /\ \A f \in Files, q \in Pages : lookup(hashTable, f, q) # NoFrame => Resident(f, q)

\* C13: a fetchPage that fails, with BufferExceeded from allocBuf or because
\* File::readPage throws for a page the file does not have, changes no frame
\* descriptor and no index entry.
C13_FailedFetchChangesNothing ==
    [][(res'.op = "fetch" /\ res'.outcome # "ok") =>
          /\ bufDescTable' = bufDescTable
          /\ hashTable' = hashTable]_vars

\* the frames that hold a dirty page of file, among the frames below frame k
DirtyBelow(file, k) ==
    {i \in Frames : i < k /\ bufDescTable[i].file = file /\ bufDescTable[i].dirty}

\* C14: after flushFile(file) has returned without an exception no frame is
\* valid with that file as owner; every page of the file whose frame was dirty
\* before the call has been written to the file, with one writePage per dirty
\* frame; the descriptors and slots of frames of other files are as before.
C14_FlushEvictsAndPersists ==
    [][\A f \in Files :
          (flushFile(f) /\ res'.outcome = "ok") =>
             /\ \A i \in Frames : ~(bufDescTable'[i].valid /\ bufDescTable'[i].file = f)
             /\ res'.nw = Cardinality(DirtyBelow(f, numBufs))
             /\ \A i \in DirtyBelow(f, numBufs) :
                   disk'[f][bufDescTable[i].pageNo] = bufPool[i].data
             /\ \A i \in Frames :
                   bufDescTable[i].file # f =>
                      bufDescTable'[i] = bufDescTable[i] /\ bufPool'[i] = bufPool[i]]_vars

\* C14 witness: a flushFile returned after writing a dirty page, and the other
\* frame of the pool still holds a valid page (of another file).
C14_Witness ==
    /\ res.op = "flush" /\ res.outcome = "ok" /\ res.nw >= 1
    /\ \E i, j \in Frames : bufDescTable[i].valid /\ bufDescTable[j] = Clear

\* the first frame of file that is pinned
FirstPinned(file) ==
    CHOOSE k \in Frames :
        /\ bufDescTable[k].file = file /\ bufDescTable[k].pinCnt > 0
        /\ \A i \in Frames :
              (bufDescTable[i].file = file /\ bufDescTable[i].pinCnt > 0) => k <= i

\* C15: flushFile(file) throws PagePinned when a frame of the file has
\* pinCnt > 0, naming the first such frame; the frames of the file below it
\* are cleared, their pages removed from the index and written to the file if
\* dirty (one writePage each); the pinned frame and every frame above it keep
\* their descriptor, their slot and their index entry.
C15_FlushStopsAtFirstPinned ==
    [][\A f \in Files :
          (/\ flushFile(f)
           /\ \E i \in Frames : bufDescTable[i].file = f /\ bufDescTable[i].pinCnt > 0)
          => LET k == FirstPinned(f) IN
             /\ res'.outcome = "PagePinned" /\ res'.frame = k
             /\ res'.nw = Cardinality(DirtyBelow(f, k))
             /\ \A i \in DirtyBelow(f, k) :
                   disk'[f][bufDescTable[i].pageNo] = bufPool[i].data
             /\ \A i \in Frames :
                   (i < k /\ bufDescTable[i].file = f) =>
                      /\ bufDescTable'[i] = Clear
                      /\ lookup(hashTable', f, bufDescTable[i].pageNo) = NoFrame
             /\ \A i \in Frames :
                   i >= k =>
                      /\ bufDescTable'[i] = bufDescTable[i]
                      /\ bufPool'[i] = bufPool[i]
                      /\ bufDescTable[i].valid =>
                            lookup(hashTable', bufDescTable[i].file, bufDescTable[i].pageNo) = i]_vars

\* C15 witness: flushFile threw PagePinned at frame 1 after it had written and
\* cleared frame 0; frame 1 still holds its pinned page.
C15_Witness ==
    /\ res.op = "flush" /\ res.outcome = "PagePinned" /\ res.frame = 1 /\ res.nw = 1
    /\ bufDescTable[0] = Clear
    /\ PinnedResident(1)

\* C16: disposePage(file, pageNo) makes exactly one deletePage call, for that
\* page, and no other change to the files; when the index has no entry for
\* the page, no index entry and no descriptor changes; when the page is
\* resident, its index entry is removed and its frame cleared, and no
\* writePage is made, the page being dirty or not.
C16_DisposeDeletesOnce ==
    [][\A f \in Files, p \in Pages :
          disposePage(f, p) =>
             /\ res'.nd = 1
             /\ disk' = deletePage(disk, f, p)
             /\ lookup(hashTable, f, p) = NoFrame => UNCHANGED <<bufDescTable, hashTable>>
             /\ Resident(f, p) =>
                   /\ res'.nw = 0
                   /\ hashTable' = remove(hashTable, f, p)
                   /\ bufDescTable' = [bufDescTable EXCEPT ![FrameOf(f, p)] = Clear]]_vars

\* C16 witness: a disposePage found its page in a frame that was valid and
\* dirty, made one deletePage and no writePage, and left the frame cleared
\* with no index entry pointing at it (so the page disposed was the frame's).
C16_Witness ==
    /\ res.op = "dispose" /\ res.hit /\ res.vvalid /\ res.vdirty
    /\ res.nd = 1 /\ res.nw = 0
    /\ bufDescTable[res.frame] = Clear
    /\ \A f \in Files, p \in Pages : lookup(hashTable, f, p) # res.frame

\* The manager after fetchPage of pages A, B, C into a fresh pool of three
\* frames, unPinPage(A, false) and unPinPage(B, true): frames 0, 1, 2 hold
\* A, B, C in this order, all with refbit set, A unpinned and clean,
\* B unpinned and dirty, C pinned once; the clock hand is on frame 2.
AfterUnpins(A, B, C) ==
    /\ numBufs = ScenarioBufs
    /\ bufDescTable[0] = [Set(A[1], A[2]) EXCEPT !.pinCnt = 0]
    /\ bufDescTable[1] = [Set(B[1], B[2]) EXCEPT !.pinCnt = 0, !.dirty = TRUE]
    /\ bufDescTable[2] = Set(C[1], C[2])
    /\ clockHand = 2
    /\ hashTable = [k \in Files \X Pages |->
                       IF k = A THEN 0 ELSE IF k = B THEN 1 ELSE IF k = C THEN 2 ELSE NoFrame]

\* C17: in a fresh pool of three frames, after fetching A, B, C and unpinning
\* A clean and B dirty, fetchPage of a fourth page D succeeds and puts D in
\* the frame that held A; no writePage is made; B stays in its frame, dirty,
\* with its index entry.
C17_FetchTakesFirstUnpinned ==
    [][\A A, B, C, D \in Files \X Pages :
          (/\ Cardinality({A, B, C, D}) = 4
           /\ AfterUnpins(A, B, C)
           /\ readPage(D[1], D[2]))
          => /\ res'.outcome = "ok"
             /\ res'.frame = 0
             /\ bufDescTable'[0] = Set(D[1], D[2])
             /\ res'.nw = 0 /\ disk' = disk
             /\ bufDescTable'[1] = bufDescTable[1]
             /\ lookup(hashTable', B[1], B[2]) = 1]_vars

\* C18: a caller that retries a fetchPage miss after BufferExceeded, while some
\* frame has pinCnt 0, gets a frame after finitely many attempts. allocBuf
\* decides from the descriptors and the clock hand alone, so an attempt that
\* fails and leaves both as it found them fails again at every retry: every
\* failed attempt made while a frame has pinCnt 0 must change one of them.
C18_FailedRetryMovesOn ==
    [][(/\ res'.op = "fetch" /\ res'.outcome = "BufferExceeded"
        /\ \E i \in Frames : bufDescTable[i].pinCnt = 0)
       => <<bufDescTable', clockHand'>> # <<bufDescTable, clockHand>>]_vars

\* the frames an allocBuf call passes over when it finds the clock hand at h
\* and selects frame k: the frames from h + 1 round to k, k left out
Passed(h, k) ==
    {i \in Frames : (i - h - 1) % numBufs < (k - h - 1) % numBufs}

\* C19: in one allocBuf call every frame that is passed over while valid with
\* refbit set has its refbit cleared, the first frame probed included; the
\* call ends with the clock hand inside the pool, on the frame it selected,
\* or, when it throws BufferExceeded after passing every frame once, one
\* position after where the call found it.
C19_ScanClearsRefbits ==
    [][(res'.op \in {"fetch", "alloc"} /\ ~res'.hit) =>
          /\ clockHand' \in Frames
          /\ IF res'.frame # NoFrame
             THEN /\ clockHand' = res'.frame
                  /\ \A i \in Passed(clockHand, res'.frame) :
                        (bufDescTable[i].valid /\ bufDescTable[i].refbit)
                           => ~bufDescTable'[i].refbit
             ELSE /\ clockHand' = advanceClock(clockHand)
                  /\ \A i \in Frames :
                        (bufDescTable[i].valid /\ bufDescTable[i].refbit)
                           => ~bufDescTable'[i].refbit]_vars

\* C20: an allocPage that throws BufferExceeded leaves the files, the index
\* and every descriptor as they were before the call; an allocPage that
\* succeeds leaves the new page in exactly one frame, with pinCnt 1, refbit
\* set and dirty clear, and the index maps the page to that frame.
C20_AllocPageAtomic ==
    [][res'.op = "alloc" =>
          IF res'.outcome = "BufferExceeded"
          THEN /\ disk' = disk
               /\ hashTable' = hashTable
               /\ bufDescTable' = bufDescTable
          ELSE /\ bufDescTable'[res'.frame] = Set(res'.file, res'.page)
               /\ lookup(hashTable', res'.file, res'.page) = res'.frame
               /\ \A j \in Frames :
                     (/\ bufDescTable'[j].valid
                      /\ bufDescTable'[j].file = res'.file
                      /\ bufDescTable'[j].pageNo = res'.page) => j = res'.frame]_vars

====
